---- MODULE Spec2Model ----
(***************************************************************************)
(* Commit2Doc: the commit store of App.tsx, the fetch handler of           *)
(* CommitManager.tsx, and the GitHub and Azure DevOps provider clients,    *)
(* both in services/azureService.ts (fetchAzureCommit, fetchGitHubCommit). *)
(*                                                                         *)
(* Every `await fetch(...)` of the source is two steps of the model: the   *)
(* request is put into `net` (the operation suspends), and a later step    *)
(* takes it out again together with the response the environment chose.    *)
(***************************************************************************)
EXTENDS Integers, Sequences, FiniteSets, TLC

\* ------------------------------------------------------------------ bounds

\* how many commits the session creates at most (caps crypto.randomUUID draws)
MaxIds == 3
\* how many changed items a changes-list response carries at most
MaxChanges == 2
MaxPath == 4

\* ------------------------------------------------------------------ helpers

Range(s) == {s[i] : i \in DOMAIN s}

Min(a, b) == IF a < b THEN a ELSE b

\* optional field that was not set (author?: string, date?: string)
Absent == "<undefined>"

\* String.prototype.substring(0, n) on a string held as a sequence of characters
Substring0(s, n) == SubSeq(s, 1, Min(Len(s), n))

\* ------------------------------------------------------------------ URLs
\* A URL string is held by its parts: scheme ("" when the text has no
\* "scheme://" prefix), host as its dot-separated labels, path as its
\* slash-separated segments ("" is an empty segment, as in "a//b" or "a/"),
\* query as the text from the first "?" or "#" on ("" when there is none).

Url(scheme, host, path) ==
    [scheme |-> scheme, host |-> host, path |-> path, query |-> ""]

WithQuery(u, query) == [u EXCEPT !.query = query]

\* the labels a string ends with "visualstudio" / "github" in
EndsWithVisualstudio(label) == label \in {"visualstudio", "myvisualstudio"}
EndsWithGithub(label) == label \in {"github", "notgithub"}

\* Array.prototype.filter(p => p) on the path segments
RECURSIVE FilterNonEmpty(_)
FilterNonEmpty(s) ==
    IF s = <<>> THEN <<>>
    ELSE IF Head(s) = "" THEN FilterNonEmpty(Tail(s))
    ELSE <<Head(s)>> \o FilterNonEmpty(Tail(s))

\* Array.prototype.indexOf, 0-based, -1 when absent
IndexOf(s, x) ==
    IF \E i \in DOMAIN s : s[i] = x
    THEN (CHOOSE i \in DOMAIN s : s[i] = x /\ \A j \in 1..(i - 1) : s[j] # x) - 1
    ELSE -1

\* pathParts[i] with a 0-based index; "" stands for undefined (both are falsy)
At0(s, i) == IF i + 1 \in DOMAIN s THEN s[i + 1] ELSE ""

\* new URL(url) throws unless the text has a scheme and a host
UrlConstructs(u) == u.scheme # "" /\ u.host # <<>>

\* urlObj.hostname.endsWith('visualstudio.com')
HostEndsWithVisualstudioCom(h) ==
    Len(h) >= 2 /\ h[Len(h)] = "com" /\ EndsWithVisualstudio(h[Len(h) - 1])

\* urlObj.hostname === 'dev.azure.com'
HostIsDevAzureCom(h) == h = <<"dev", "azure", "com">>

NoParse == [ok |-> FALSE, org |-> "", project |-> "", repo |-> ""]

RepoAfterGit(pathParts) ==
    LET gitIndex == IndexOf(pathParts, "_git")
    IN  IF gitIndex # -1 /\ gitIndex + 1 < Len(pathParts)
        THEN At0(pathParts, gitIndex + 1) ELSE ""

\* mutant of parseAzureUrl: the repository is not required
parseAzureUrlNoRepoCheck(u) ==
    [ok |-> UrlConstructs(u) /\ HostIsDevAzureCom(u.host) /\ Len(FilterNonEmpty(u.path)) >= 2,
     org |-> At0(FilterNonEmpty(u.path), 0), project |-> At0(FilterNonEmpty(u.path), 1),
     repo |-> RepoAfterGit(FilterNonEmpty(u.path))]

\* mutant of parseAzureUrl: only the dev.azure.com form is read
parseAzureUrlDevOnly(u) ==
    LET pathParts == FilterNonEmpty(u.path)
    IN  IF UrlConstructs(u) /\ HostIsDevAzureCom(u.host)
           /\ At0(pathParts, 0) # "" /\ At0(pathParts, 1) # ""
           /\ RepoAfterGit(pathParts) # ""
        THEN [ok |-> TRUE, org |-> At0(pathParts, 0), project |-> At0(pathParts, 1),
              repo |-> RepoAfterGit(pathParts)]
        ELSE NoParse

\* azureService.ts 14-47
parseAzureUrl(u) ==
    IF ~UrlConstructs(u) THEN NoParse
    ELSE
      LET pathParts == FilterNonEmpty(u.path)
          vs == HostEndsWithVisualstudioCom(u.host)
          dev == ~vs /\ HostIsDevAzureCom(u.host)
          org == IF vs THEN u.host[1] ELSE IF dev THEN At0(pathParts, 0) ELSE ""
          project == IF vs THEN At0(pathParts, 0)
                     ELSE IF dev THEN At0(pathParts, 1) ELSE ""
          repo == IF vs \/ dev THEN RepoAfterGit(pathParts) ELSE ""
      IN  IF org = "" \/ project = "" \/ repo = "" THEN NoParse
          ELSE [ok |-> TRUE, org |-> org, project |-> project, repo |-> repo]

\* The text of the URL cut at every "/": with a scheme the first two pieces
\* are "https:" and "" and the host follows; a piece is described by whether
\* it ends with "github.com" and by its text.
HostEndsWithGithubCom(h) ==
    Len(h) >= 2 /\ h[Len(h)] = "com" /\ EndsWithGithub(h[Len(h) - 1])

SegEndsWithGithubCom(seg) == seg \in {"github.com"}

\* repoUrl.match(/github\.com\/([^/]+)\/([^/]+)/): the leftmost piece ending
\* with "github.com" that is followed by two non-empty pieces; [^/]+ runs to
\* the next "/" or the end of the text, so a second piece that is the last
\* one of the path takes the query with it
GithubMatch(u) ==
    LET p == [i \in DOMAIN u.path |->
                IF i = Len(u.path) THEN u.path[i] \o u.query ELSE u.path[i]]
        hostHit == HostEndsWithGithubCom(u.host) /\ Len(p) >= 2
                   /\ p[1] # "" /\ p[2] # ""
        segHits == {i \in DOMAIN p : SegEndsWithGithubCom(p[i]) /\ i + 2 <= Len(p)
                                     /\ p[i + 1] # "" /\ p[i + 2] # ""}
    IN  IF hostHit THEN [ok |-> TRUE, owner |-> p[1], repo |-> p[2]]
        ELSE IF segHits # {}
        THEN LET i == CHOOSE k \in segHits : \A j \in segHits : k <= j
             IN  [ok |-> TRUE, owner |-> p[i + 1], repo |-> p[i + 2]]
        ELSE [ok |-> FALSE, owner |-> "", repo |-> ""]

\* ------------------------------------------------------------------ data

\* enum CommitSource
CommitSource == {"GITHUB", "AZURE", "MANUAL"}

\* interface Commit; id 0 is the record of "no commit"
Commit(id, hash, message, diff, author, date, source) ==
    [id |-> id, hash |-> hash, message |-> message, diff |-> diff,
     author |-> author, date |-> date, source |-> source]

NoCommit == Commit(0, <<>>, "", <<>>, Absent, Absent, "MANUAL")

\* A diff is text; it is held as the sequence of the pieces the code
\* concatenates. t names the piece, path/kind its file and change type,
\* n the number of leading characters of file text it embeds, marker whether
\* the "... (truncated)" line is in it.
Line(t, path, kind, n, marker) ==
    [t |-> t, path |-> path, kind |-> kind, n |-> n, marker |-> marker]

Note(t) == Line(t, "", "", 0, FALSE)

\* text.length < 30000
BinaryLimit == 30000
\* text.substring(0, 5000), text.length > 5000
EmbedLimit == 5000
\* commitId.substring(0, 7), sha.substring(0, 7)
HashLen == 7

\* mutant of ContentBlock: the truncation marker from 5000 characters on
ContentBlockMarkerEarly(text) ==
    IF text.len < BinaryLimit /\ ~text.nul
    THEN Line("content", "", "", Min(text.len, EmbedLimit), text.len >= EmbedLimit)
    ELSE Note("skipped")

\* azureService.ts 170-174: what a content response with body `text` adds
ContentBlock(text) ==
    IF text.len < BinaryLimit /\ ~text.nul
    THEN Line("content", "", "", Min(text.len, EmbedLimit), text.len > EmbedLimit)
    ELSE Note("skipped")

\* ['edit', 'add'].includes(change.changeType) && !change.item.isFolder
Eligible(change) == change.changeType \in {"edit", "add"} /\ ~change.isFolder

\* `File: ${change.item.path} [${change.changeType}]`
FileHeader(change) == Line("file", change.path, change.changeType, 0, FALSE)

\* azureService.ts 262-265: one block per file, the patch or the placeholder
GithubDiff(files) ==
    [i \in DOMAIN files |->
        Line("ghfile", files[i].filename, files[i].status, 0, files[i].patch)]

\* commitData.author?.name, commitData.author?.date
AuthorName(data) == IF data.hasAuthor THEN data.authorName ELSE Absent
AuthorDate(data) == IF data.hasAuthor THEN data.authorDate ELSE Absent

\* mutant of AzureCommit: the hash is the whole commitId
AzureCommitFullHash(id, data, diffContent) ==
    Commit(id, data.commitId, data.comment, diffContent,
           AuthorName(data), AuthorDate(data), "AZURE")

\* azureService.ts 191-199
AzureCommit(id, data, diffContent) ==
    Commit(id, Substring0(data.commitId, HashLen), data.comment, diffContent,
           AuthorName(data), AuthorDate(data), "AZURE")

\* azureService.ts 267-275
GithubCommit(id, data) ==
    Commit(id, Substring0(data.commitId, HashLen), data.comment,
           GithubDiff(data.files), data.authorName, data.authorDate, "GITHUB")

\* mutant of ManualCommit: every manual entry has the same id
ManualCommitSentinelId(id, manualDiff, manualMessage) ==
    Commit(0, <<"m", "a", "n", "u", "a", "l">>,
           IF manualMessage = "" THEN "Manual Diff Entry" ELSE manualMessage,
           <<Line("manual", manualDiff, "", 0, FALSE)>>,
           Absent, "now", "MANUAL")

\* mutant of ManualCommit: the message is the one entered, empty or not
ManualCommitRawMessage(id, manualDiff, manualMessage) ==
    Commit(id, <<"m", "a", "n", "u", "a", "l">>, manualMessage,
           <<Line("manual", manualDiff, "", 0, FALSE)>>,
           Absent, "now", "MANUAL")

\* CommitManager.tsx 97-104
ManualCommit(id, manualDiff, manualMessage) ==
    Commit(id, <<"m", "a", "n", "u", "a", "l">>,
           IF manualMessage = "" THEN "Manual Diff Entry" ELSE manualMessage,
           <<Line("manual", manualDiff, "", 0, FALSE)>>,
           Absent, "now", "MANUAL")

\* mutant of AddCommit: the store is written from an empty list, whatever it holds
AddCommitReplace(prev, commit) == <<commit>>

\* mutant of AddCommit: a commit whose hash is in the store is not added again
AddCommitDedup(prev, commit) ==
    IF \E c \in Range(prev) : c.hash = commit.hash THEN prev ELSE Append(prev, commit)

\* mutant of AddCommit: a commit whose hash is in the store replaces that entry
AddCommitUpsert(prev, commit) ==
    IF \E c \in Range(prev) : c.hash = commit.hash
    THEN [i \in DOMAIN prev |-> IF prev[i].hash = commit.hash THEN commit ELSE prev[i]]
    ELSE Append(prev, commit)

\* App.tsx 23: prev => [...prev, commit]
AddCommit(prev, commit) == Append(prev, commit)

\* mutant of RemoveCommit: every entry with the hash of the entry `id` goes
RemoveCommitByHash(prev, id) ==
    SelectSeq(prev, LAMBDA c : \A d \in Range(prev) : d.id = id => c.hash # d.hash)

\* mutant of RemoveCommit: splice(findIndex(id), 1), which drops the last entry
\* when findIndex returns -1
RemoveCommitSplice(prev, id) ==
    IF \E c \in Range(prev) : c.id = id
    THEN SelectSeq(prev, LAMBDA c : c.id # id)
    ELSE SubSeq(prev, 1, Len(prev) - 1)

\* App.tsx 27: prev => prev.filter(c => c.id !== id)
RemoveCommit(prev, id) == SelectSeq(prev, LAMBDA c : c.id # id)

\* ------------------------------------------------------------------ state

VARIABLES
    commits,       \* App.tsx: useState<Commit[]>([]), the CommitStore
    nextId,        \* the next value crypto.randomUUID() returns (never reused)
    isFetching,    \* CommitManager.tsx: useState(false)
    fetchError,    \* CommitManager.tsx: useState('')
    ops,           \* the handleFetch invocations, by slot: where each one is
    net,           \* requests issued and not yet answered
    generatedDoc,  \* App.tsx: useState<string>('')
    isGenerating,  \* App.tsx: useState(false)
    genPc,         \* where handleGenerate is: "idle" or "await"
    genLast,       \* the last answer generateDocumentation got and how it ended
    previousDocContent,  \* App.tsx: useState<string | null>(null)
    reading        \* the texts a FileReader is still reading (onload pending)

vars == <<commits, nextId, isFetching, fetchError, ops, net,
          generatedDoc, isGenerating, genPc, genLast, previousDocContent, reading>>

\* what handleFetch and the store handlers leave alone
docState == <<generatedDoc, isGenerating, genPc, genLast, previousDocContent, reading>>

\* the body of a commit-metadata response (Azure) or commit response (GitHub)
CommitData(commitId, comment, hasAuthor, files) ==
    [commitId |-> commitId, comment |-> comment, hasAuthor |-> hasAuthor,
     authorName |-> "alice", authorDate |-> "2024-01-01", files |-> files]

NoData == CommitData(<<>>, "", FALSE, <<>>)

\* a handleFetch invocation: pc is the request it is suspended at ("idle":
\* none); issued and trace log the requests it issued and the answers it got;
\* target is what the URL was parsed into (the names the request URLs are
\* built from); meanwhile names the store handlers that changed the store
\* while it was suspended;
\* status, failedAt, message and commit are how it ended
IdleOp ==
    [pc |-> "idle", tab |-> "", url |-> Url("", <<>>, <<>>), token |-> "",
     data |-> NoData, changes |-> <<>>, idx |-> 0,
     diffContent |-> <<>>, issued |-> <<>>, trace |-> <<>>, target |-> <<>>,
     meanwhile |-> {},
     status |-> "none", failedAt |-> "", message |-> "", commit |-> NoCommit]

\* the body of a request other than the generation request
NoBody ==
    [previousDocContent |-> "", task |-> <<>>,
     section |-> [fenced |-> FALSE, text |-> ""]]

Req(s, kind, idx) == [op |-> s, kind |-> kind, idx |-> idx, body |-> NoBody]

\* an answer received: which request, how it ended, and for a content answer
\* the length of the text and whether a NUL is in it
Event(kind, idx, how, len, nul) ==
    [kind |-> kind, idx |-> idx, how |-> how, len |-> len, nul |-> nul]

\* how a response ended, as the code tells the cases apart
How(resp) ==
    IF resp.kind = "net" THEN "net"
    ELSE IF ~resp.ok THEN "status"
    ELSE IF ~resp.parses THEN "body"
    ELSE "ok"

\* the generated Markdown: its first line and what follows it
Doc(head, body) == [head |-> head, body |-> body]

\* an answer of the text-generation call: kind "text" with the text, or kind
\* "throw" with what was thrown ("error": an object with a message,
\* "nomessage": a value without one, "null": null or undefined)
GenResp(kind, text, thrown, message) ==
    [kind |-> kind, text |-> text, thrown |-> thrown, message |-> message]

\* generateDocumentation has not been called yet
NoCall == [resp |-> GenResp("none", "", "", ""), outcome |-> "none"]

\* previousDocContent when no previous document is held
Null == "<null>"

Init ==
    /\ commits = <<>>
    /\ nextId = 1
    /\ isFetching = FALSE
    /\ fetchError = ""
    /\ ops = [s \in {1} |-> IdleOp]  \* the Fetch button shows isLoading: one at a time
    /\ net = {}
    /\ generatedDoc = Doc("", "")
    /\ isGenerating = FALSE
    /\ genPc = "idle"
    /\ genLast = NoCall
    /\ previousDocContent = Null
    /\ reading = {}

Running(s) == ops[s].pc # "idle"

\* ---------------------------------------------------------- handleFetch ends

\* CommitManager.tsx 61-64 and 67-68: the awaited call returned `commit`
Succeed(s, o, commit) ==
    /\ ops' = [ops EXCEPT ![s] = [o EXCEPT !.pc = "idle", !.status = "ok",
                                           !.commit = commit]]
    /\ commits' = AddCommit(commits, commit)
    /\ nextId' = nextId + 1
    /\ fetchError' = ""
    /\ isFetching' = FALSE
    /\ UNCHANGED docState

\* CommitManager.tsx 65-68: the awaited call threw at `step` with `message`
Fail(s, o, step, message) ==
    /\ ops' = [ops EXCEPT ![s] = [o EXCEPT !.pc = "idle", !.status = "error",
                                           !.failedAt = step, !.message = message]]
    /\ fetchError' = IF message = "" THEN "Failed to fetch" ELSE message
    /\ isFetching' = FALSE
    /\ UNCHANGED <<commits, nextId>>
    /\ UNCHANGED docState

\* the call issued a request and is suspended at it
\* the requests that leave `net` when the answer to `req` is taken
Answered(req) == {req}

\* the call took the answers `done`, issued a request and is suspended at it
Suspend(s, o, done, kind, idx) ==
    /\ ops' = [ops EXCEPT ![s] = [o EXCEPT !.pc = kind, !.idx = idx,
                                           !.issued = Append(@, Req(s, kind, idx))]]
    /\ net' = (net \ done) \cup {Req(s, kind, idx)}
    /\ UNCHANGED <<commits, nextId>>
    /\ UNCHANGED docState

\* ---------------------------------------------------------- handleFetch

Slots == DOMAIN ops

EmptyUrl == Url("", <<>>, <<>>)

\* azureService.ts 237-238 and 250: owner and repo as put into the request URL
GithubTarget(u) == <<GithubMatch(u).owner, GithubMatch(u).repo>>

\* azureService.ts 106 and 109: org, project and repo as put into baseUrl
AzureTarget(u) == <<parseAzureUrl(u).org, parseAzureUrl(u).project, parseAzureUrl(u).repo>>

\* CommitManager.tsx 38-59 with the synchronous head of the provider call
\* (azureService.ts 231-252, azureService.ts 101-124). The GitHub token only
\* adds a header and is left out. The form fields (activeTab, repoUrl,
\* commitHash, azureToken) are the values the click reads; the model draws
\* them per click and keeps no copy, so the reset of commitHash (63) has
\* nothing to write to.
handleFetch(in) ==
    \E s \in Slots, tab \in in.tabs, repoUrl \in in.urls,
       commitHash \in in.hashes, azureToken \in in.tokens :
      /\ ~Running(s)
      /\ \A t \in Slots : t < s => Running(t)
      /\ nextId + Cardinality({t \in Slots : Running(t)}) <= MaxIds
      /\ LET o == [IdleOp EXCEPT !.tab = tab, !.url = repoUrl,
                                 !.token = azureToken, !.status = "running"]
         IN  IF repoUrl = EmptyUrl \/ commitHash = ""
             THEN /\ fetchError' = "Repo URL and Commit Hash are required"
                  /\ UNCHANGED <<commits, nextId, isFetching, ops, net>>
                  /\ UNCHANGED docState
             ELSE IF tab = "github"
             THEN IF ~GithubMatch(repoUrl).ok
                  THEN /\ Fail(s, o, "PARSE_URL", "Invalid GitHub repository URL")
                       /\ UNCHANGED net
                  ELSE /\ Suspend(s, [o EXCEPT !.target = GithubTarget(repoUrl)],
                                  {}, "github", 0)
                       /\ isFetching' = TRUE
                       /\ fetchError' = ""
             ELSE IF azureToken = ""
                  THEN /\ Fail(s, o, "CREDENTIAL", "Personal Access Token (PAT) is required for Azure DevOps")
                       /\ UNCHANGED net
                  ELSE IF ~parseAzureUrl(repoUrl).ok
                  THEN /\ Fail(s, o, "PARSE_URL", "Invalid Azure DevOps repository URL")
                       /\ UNCHANGED net
                  ELSE /\ Suspend(s, [o EXCEPT !.target = AzureTarget(repoUrl)],
                                  {}, "commit", 0)
                       /\ isFetching' = TRUE
                       /\ fetchError' = ""

\* err.message || generic, where err is the parsed error body or {}
ProviderMessage(resp, generic) ==
    IF resp.parses /\ resp.message # "" THEN resp.message ELSE generic

\* azureService.ts 249-280: the answer to the single-commit request
GithubRespond(in) ==
    \E s \in Slots, resp \in in.commitResps :
      /\ ops[s].pc = "github"
      /\ Req(s, "github", 0) \in net
      /\ net' = net \ Answered(Req(s, "github", 0))
      /\ LET o == [ops[s] EXCEPT
                     !.trace = Append(@, Event("github", 0, How(resp), 0, FALSE))]
         IN  IF resp.kind = "net"
             THEN Fail(s, o, "FETCH_COMMIT", "Failed to fetch")
             ELSE IF ~resp.ok
             THEN IF ~resp.parses
                  THEN Fail(s, o, "FETCH_COMMIT", "Unexpected token < in JSON")
                  ELSE Fail(s, o, "FETCH_COMMIT",
                            ProviderMessage(resp, "Failed to fetch commit from GitHub"))
             ELSE IF ~resp.parses
             THEN Fail(s, o, "FETCH_COMMIT", "Unexpected token < in JSON")
             ELSE Succeed(s, [o EXCEPT !.data = resp.data],
                          GithubCommit(nextId, resp.data))

\* azureService.ts 126-144: the answer to the commit-metadata request
AzureCommitRespond(in) ==
    \E s \in Slots, resp \in in.commitResps :
      /\ ops[s].pc = "commit"
      /\ Req(s, "commit", 0) \in net
      /\ LET o == [ops[s] EXCEPT
                     !.trace = Append(@, Event("commit", 0, How(resp), 0, FALSE))]
             done == Answered(Req(s, "commit", 0))
         IN  IF How(resp) = "ok"
             THEN /\ Suspend(s, [o EXCEPT !.data = resp.data], done, "changes", 0)
                  /\ UNCHANGED <<isFetching, fetchError>>
             ELSE /\ net' = net \ done
                  /\ IF resp.kind = "net"
                     THEN Fail(s, o, "FETCH_COMMIT", "Failed to fetch")
                     ELSE IF resp.ok
                     THEN Fail(s, o, "FETCH_COMMIT", "Unexpected token < in JSON")
                     ELSE IF resp.status = 401
                     THEN Fail(s, o, "FETCH_COMMIT", "Unauthorized. Please check your Personal Access Token (PAT).")
                     ELSE Fail(s, o, "FETCH_COMMIT",
                               ProviderMessage(resp, "Failed to fetch commit from Azure DevOps"))

\* the diff pieces of the changed items i..j-1, none of which is fetched:
\* header and separator each (azureService.ts 154, 180)
RECURSIVE Unfetched(_, _, _)
Unfetched(changes, i, j) ==
    IF i >= j THEN <<>>
    ELSE <<FileHeader(changes[i]), Note("sep")>> \o Unfetched(changes, i + 1, j)

\* azureService.ts 153-185: the loop from item i on, up to the next content
\* request (done = FALSE, idx the item it is for) or to the end of the list
Advance(changes, i, diff) ==
    LET n == Len(changes)
        hits == {k \in i..n : Eligible(changes[k])}
        j == IF hits = {} THEN n + 1 ELSE CHOOSE k \in hits : \A m \in hits : k <= m
        d == diff \o Unfetched(changes, i, j)
    IN  IF j > n
        THEN [done |-> TRUE, idx |-> j,
              diff |-> IF n = 0 THEN Append(d, Note("nochanges")) ELSE d]
        ELSE [done |-> FALSE, idx |-> j, diff |-> Append(d, FileHeader(changes[j]))]

\* mutant of NextIndex: the loop does not move on
NextIndexStuck(i) == i

\* the loop variable after the item at position i
NextIndex(i) == i + 1

\* azureService.ts 160-178: what the answer to a content request adds
ContentOutcome(diff, resp) ==
    IF resp.kind = "net" THEN Append(diff, Note("nofetch"))
    ELSE IF ~resp.ok THEN diff
    ELSE IF ~resp.parses THEN Append(diff, Note("nofetch"))
    ELSE Append(diff, ContentBlock([len |-> resp.len, nul |-> resp.nul]))

\* azureService.ts 146-189 and 191-199: the answer to the changes-list request
AzureChangesRespond(in) ==
    \E s \in Slots, resp \in in.changesResps :
      /\ ops[s].pc = "changes"
      /\ Req(s, "changes", 0) \in net
      /\ LET o == [ops[s] EXCEPT
                     !.trace = Append(@, Event("changes", 0, How(resp), 0, FALSE))]
             done == Answered(Req(s, "changes", 0))
             summary == <<Note("summary")>>
             r == Advance(resp.changes, 1, summary)
         IN  IF resp.kind = "net"
             THEN Fail(s, o, "FETCH_CHANGES", "Failed to fetch") /\ net' = net \ done
             ELSE IF ~resp.ok
             THEN /\ Succeed(s, [o EXCEPT !.diffContent = Append(summary, Note("nolist"))],
                             AzureCommit(nextId, o.data, Append(summary, Note("nolist"))))
                  /\ net' = net \ done
             ELSE IF ~resp.parses
             THEN /\ Fail(s, o, "FETCH_CHANGES", "Unexpected token < in JSON")
                  /\ net' = net \ done
             ELSE IF r.done
             THEN /\ Succeed(s, [o EXCEPT !.changes = resp.changes, !.diffContent = r.diff],
                             AzureCommit(nextId, o.data, r.diff))
                  /\ net' = net \ done
             ELSE /\ Suspend(s, [o EXCEPT !.changes = resp.changes, !.diffContent = r.diff],
                             done, "content", r.idx)
                  /\ UNCHANGED <<isFetching, fetchError>>

\* azureService.ts 163-181 and on: the answer to the content request of item idx
AzureContentRespond(in) ==
    \E s \in Slots, resp \in in.contentResps :
      /\ ops[s].pc = "content"
      /\ Req(s, "content", ops[s].idx) \in net
      /\ LET i == ops[s].idx
             o == [ops[s] EXCEPT
                     !.trace = Append(@, Event("content", i, How(resp), resp.len, resp.nul))]
             done == Answered(Req(s, "content", i))
             d == Append(ContentOutcome(o.diffContent, resp), Note("sep"))
             r == Advance(o.changes, NextIndex(i), d)
         IN  IF r.done
             THEN /\ Succeed(s, [o EXCEPT !.diffContent = r.diff],
                             AzureCommit(nextId, o.data, r.diff))
                  /\ net' = net \ done
             ELSE /\ Suspend(s, [o EXCEPT !.diffContent = r.diff], done, "content", r.idx)
                  /\ UNCHANGED <<isFetching, fetchError>>

\* ---------------------------------------------------------- the store

\* the store was changed by handler `what`: the suspended fetches note it
Meanwhile(what) ==
    [s \in Slots |-> IF Running(s) THEN [ops[s] EXCEPT !.meanwhile = @ \cup {what}]
                     ELSE ops[s]]

\* CommitManager.tsx 95-108; manualDiff and manualMessage are drawn per click
handleManualAdd(in) ==
    \E manualDiff \in in.diffs, manualMessage \in in.messages :
      /\ nextId + Cardinality({t \in Slots : Running(t)}) <= MaxIds
      /\ IF manualDiff = ""
         THEN UNCHANGED <<commits, nextId, ops>>
         ELSE /\ commits' = AddCommit(commits, ManualCommit(nextId, manualDiff, manualMessage))
              /\ nextId' = nextId + 1
              /\ ops' = Meanwhile("add")
      /\ UNCHANGED <<isFetching, fetchError, net>>
      /\ UNCHANGED docState

\* App.tsx 26-28; id 0 and id nextId are ids no commit has
handleRemoveCommit(id) ==
    /\ commits' = RemoveCommit(commits, id)
    /\ ops' = IF commits' = commits THEN ops ELSE Meanwhile("remove")
    /\ UNCHANGED <<nextId, isFetching, fetchError, net>>
    /\ UNCHANGED docState

\* ---------------------------------------------------------- generation

\* geminiService.ts 68-82: the string generateDocumentation returns, or
\* [thrown |-> TRUE] when the catch block itself throws (error is null)
GenerateResult(resp) ==
    IF resp.kind = "text"
    THEN [thrown |-> FALSE,
          doc |-> IF resp.text = "" THEN Doc("# Error: No content generated.", "")
                  ELSE Doc(resp.text, "")]
    ELSE IF resp.thrown = "null"
    THEN [thrown |-> TRUE, doc |-> Doc("", "")]
    ELSE [thrown |-> FALSE,
          doc |-> Doc("# Generation Failed",
                      IF resp.thrown = "nomessage" THEN "undefined" ELSE resp.message)]

\* JavaScript truthiness of previousDocContent: null and "" are falsy
Truthy(text) == text # Null /\ text # ""

\* mutant of TaskDescription: the skeleton is appended in both modes
TaskDescriptionBoth(previous) ==
    IF Truthy(previous) THEN <<"writer", "update", "skeleton">>
    ELSE <<"writer", "skeleton">>

\* geminiService.ts 27-48: the instruction blocks of the prompt, in order
TaskDescription(previous) ==
    IF Truthy(previous) THEN <<"writer", "update">> ELSE <<"writer", "skeleton">>

\* geminiService.ts 59-60: the previous-documentation section of the prompt
PreviousSection(previous) ==
    IF Truthy(previous) THEN [fenced |-> TRUE, text |-> previous]
    ELSE [fenced |-> FALSE, text |-> "None"]

\* geminiService.ts 50-66: the prompt sent for `config`, held by its
\* instruction blocks and its previous-documentation section, with the
\* previousDocContent it was built from. extraInfo and setupInstructions only
\* fill their own sections and are left out; the commit blocks are counted
\* in the request.
Prompt(previous) ==
    [previousDocContent |-> previous, task |-> TaskDescription(previous),
     section |-> PreviousSection(previous)]

\* mutant of GenerateRejected: the empty store is not turned away
GenerateRejectedNever(store) == FALSE

\* App.tsx 49: a request to generate on this store returns at once
GenerateRejected(store) == Len(store) = 0

\* App.tsx 48-58 up to the await, with geminiService.ts 15-66; the request
\* carries the number of commits and the prompt
handleGenerate ==
    /\ genPc = "idle"
    /\ IF GenerateRejected(commits)
       THEN UNCHANGED <<isGenerating, net, genPc>>
       ELSE /\ isGenerating' = TRUE
            /\ net' = net \cup {[Req(0, "generate", Len(commits)) EXCEPT
                                   !.body = Prompt(previousDocContent)]}
            /\ genPc' = "await"
    /\ UNCHANGED <<commits, nextId, isFetching, fetchError, ops, generatedDoc,
                   genLast, previousDocContent, reading>>

\* App.tsx 58-64 after the await
GenerateRespond(in) ==
    \E resp \in in.genResps, req \in net :
      /\ genPc = "await"
      /\ req.kind = "generate"
      /\ net' = net \ Answered(req)
      /\ LET r == GenerateResult(resp)
         IN  /\ generatedDoc' = IF r.thrown THEN generatedDoc ELSE r.doc
             /\ genLast' = [resp |-> resp,
                            outcome |-> IF r.thrown THEN "threw" ELSE "returned"]
      /\ isGenerating' = FALSE
      /\ genPc' = "idle"
      /\ UNCHANGED <<commits, nextId, isFetching, fetchError, ops,
                     previousDocContent, reading>>

\* ---------------------------------------------------------- previous document

\* App.tsx 30-41 up to readAsText; the file input is shown while
\* previousDocContent is falsy (App.tsx 114); file.name is left out
handleFileUpload(in) ==
    \E text \in in.files :
      /\ ~Truthy(previousDocContent)
      /\ reading' = reading \cup {text}
      /\ UNCHANGED <<commits, nextId, isFetching, fetchError, ops, net,
                     generatedDoc, isGenerating, genPc, genLast, previousDocContent>>

\* App.tsx 36-39: reader.onload
FileLoaded ==
    \E text \in reading :
      /\ previousDocContent' = text
      /\ reading' = reading \ {text}
      /\ UNCHANGED <<commits, nextId, isFetching, fetchError, ops, net,
                     generatedDoc, isGenerating, genPc, genLast>>

\* App.tsx 43-46; the button is shown while previousDocContent is truthy
clearPreviousDoc ==
    /\ Truthy(previousDocContent)
    /\ previousDocContent' = Null
    /\ UNCHANGED <<commits, nextId, isFetching, fetchError, ops, net,
                   generatedDoc, isGenerating, genPc, genLast, reading>>

\* ---------------------------------------------------------- inputs

GithubGood == Url("https", <<"github", "com">>, <<"owner", "repo">>)
GithubNoRepo == Url("https", <<"github", "com">>, <<"owner">>)
AzureDev == Url("https", <<"dev", "azure", "com">>, <<"org", "proj", "_git", "repo">>)
AzureVs == Url("https", <<"org", "visualstudio", "com">>, <<"proj", "_git", "repo">>)
AzureNoGit == Url("https", <<"dev", "azure", "com">>, <<"org", "proj", "repo">>)
AzureNoScheme == Url("", <<"dev", "azure", "com">>, <<"org", "proj", "_git", "repo">>)
AzureTruncated == Url("https", <<"dev", "azure", "com">>, <<"org", "proj", "_git">>)

CommitResp(kind, ok, status, parses, message, data) ==
    [kind |-> kind, ok |-> ok, status |-> status, parses |-> parses,
     message |-> message, data |-> data]

ChangesResp(kind, ok, parses, changes) ==
    [kind |-> kind, ok |-> ok, parses |-> parses, changes |-> changes]

ContentResp(kind, ok, parses, len, nul) ==
    [kind |-> kind, ok |-> ok, parses |-> parses, len |-> len, nul |-> nul]

ChangeItem(path, changeType, isFolder) ==
    [path |-> path, changeType |-> changeType, isFolder |-> isFolder]

File(filename, status, patch) ==
    [filename |-> filename, status |-> status, patch |-> patch]

DataFull == CommitData(<<"a", "1", "b", "2", "c", "3", "d", "4", "e", "5">>, "fix parser", TRUE,
                       <<File("a.ts", "modified", TRUE), File("b.png", "added", FALSE)>>)
DataBare == CommitData(<<"a", "1", "b">>, "", FALSE, <<>>)

PathAt(i) == <<"/f1", "/f2", "/f3", "/f4">>[i]

ItemKinds == {ChangeItem("", "edit", FALSE), ChangeItem("", "add", FALSE),
              ChangeItem("", "delete", FALSE), ChangeItem("", "edit", TRUE)}

\* every changes list of n items, the item at position i having path PathAt(i)
ChangeLists(n) ==
    {[i \in 1..n |-> ChangeItem(PathAt(i), k[i].changeType, k[i].isFolder)] :
        k \in [1..n -> ItemKinds]}

TextLens == {4000, 5000, 5001, 6000, 29999, 30000, 40000}

Wide ==
    [tabs |-> {"github", "azure"},
     urls |-> {EmptyUrl, AzureDev, AzureVs, AzureNoGit, AzureNoScheme, AzureTruncated,
               GithubGood, GithubNoRepo},
     hashes |-> {"", "abc1234"},
     tokens |-> {"", "pat"},
     commitResps |-> {CommitResp("net", FALSE, 0, FALSE, "", NoData),
                      CommitResp("http", FALSE, 401, TRUE, "", NoData),
                      CommitResp("http", FALSE, 404, TRUE, "TF401019", NoData),
                      CommitResp("http", FALSE, 500, TRUE, "", NoData),
                      CommitResp("http", FALSE, 500, FALSE, "", NoData),
                      CommitResp("http", TRUE, 200, FALSE, "", NoData),
                      CommitResp("http", TRUE, 200, TRUE, "", DataFull),
                      CommitResp("http", TRUE, 200, TRUE, "", DataBare)},
     changesResps |-> {ChangesResp("net", FALSE, FALSE, <<>>),
                       ChangesResp("http", FALSE, TRUE, <<>>),
                       ChangesResp("http", TRUE, FALSE, <<>>)}
                      \cup {ChangesResp("http", TRUE, TRUE, c) :
                              c \in UNION {ChangeLists(n) : n \in 0..MaxChanges}},
     contentResps |-> {ContentResp("net", FALSE, FALSE, 0, FALSE),
                       ContentResp("http", FALSE, TRUE, 0, FALSE),
                       ContentResp("http", TRUE, FALSE, 0, FALSE),
                       ContentResp("http", TRUE, TRUE, 4000, TRUE)}
                      \cup {ContentResp("http", TRUE, TRUE, n, FALSE) : n \in TextLens},
     diffs |-> {}, messages |-> {}, genResps |-> {}, files |-> {}]

Narrow ==
    [tabs |-> {"github", "azure"},
     urls |-> {EmptyUrl, GithubGood, AzureDev},
     hashes |-> {"", "abc1234"},
     tokens |-> {"pat"},
     commitResps |-> {CommitResp("net", FALSE, 0, FALSE, "", NoData),
                      CommitResp("http", TRUE, 200, TRUE, "", DataFull)},
     changesResps |-> {ChangesResp("http", FALSE, TRUE, <<>>),
                       ChangesResp("http", TRUE, TRUE, <<ChangeItem("/f1", "edit", FALSE)>>)},
     contentResps |-> {ContentResp("net", FALSE, FALSE, 0, FALSE),
                       ContentResp("http", TRUE, TRUE, 6000, FALSE)},
     diffs |-> {"", "+x"},
     messages |-> {"", "tweak"},
     files |-> {},
     genResps |-> {GenResp("text", "# Doc", "", ""),
                   GenResp("throw", "", "error", "quota exceeded")}]

\* the names and other segments a repository URL is built from
Segments == {"a", "b", "_git", "github.com", ""}

Hosts == {<<"dev", "azure", "com">>, <<"a", "visualstudio", "com">>,
          <<"github", "com">>, <<"notgithub", "com">>, <<"example", "com">>, <<>>}

\* the texts entered as repository URL: with and without a scheme, every
\* host of Hosts, every path of at most MaxPath segments, with and without
\* a query
UrlIn ==
    [tabs |-> {"github", "azure"},
     urls |-> {WithQuery(Url(scheme, host, path), query) :
                 scheme \in {"", "https"}, host \in Hosts,
                 path \in UNION {[1..n -> Segments] : n \in 0..MaxPath},
                 query \in {"", "?tab=readme"}},
     hashes |-> {"abc1234"},
     tokens |-> {"pat"},
     commitResps |-> {}, changesResps |-> {}, contentResps |-> {},
     diffs |-> {}, messages |-> {}, genResps |-> {}, files |-> {}]

\* generation and the previous document, over every kind of answer of the
\* text-generation call and an empty and a non-empty uploaded file
GenIn ==
    [tabs |-> {}, urls |-> {}, hashes |-> {}, tokens |-> {},
     commitResps |-> {}, changesResps |-> {}, contentResps |-> {},
     diffs |-> {"", "+x"},
     messages |-> {""},
     files |-> {"", "# Old"},
     genResps |-> {GenResp("text", "# Doc", "", ""),
                   GenResp("text", "", "", ""),
                   GenResp("throw", "", "error", "quota exceeded"),
                   GenResp("throw", "", "nomessage", ""),
                   GenResp("throw", "", "null", "")}]

\* ---------------------------------------------------------- specifications

\* the application: store, fetches from both providers, generation
Next ==
    \/ handleFetch(Narrow)
    \/ GithubRespond(Narrow)
    \/ AzureCommitRespond(Narrow)
    \/ AzureChangesRespond(Narrow)
    \/ AzureContentRespond(Narrow)
    \/ handleManualAdd(Narrow)
    \/ \E id \in 0..nextId : handleRemoveCommit(id)
    \/ handleGenerate
    \/ GenerateRespond(Narrow)

Spec == Init /\ [][Next]_vars

\* no fetch has been started yet
FirstFetch == \A s \in Slots : ops[s].status = "none"

\* one fetch from the initial state up to its first request, over every
\* repository URL of UrlIn
NextUrl == FirstFetch /\ handleFetch(UrlIn)

SpecUrl == Init /\ [][NextUrl]_vars

\* the application without the fetches: manual entries, the previous document
\* and generation
NextGen ==
    \/ handleManualAdd(GenIn)
    \/ \E id \in 0..nextId : handleRemoveCommit(id)
    \/ handleFileUpload(GenIn)
    \/ FileLoaded
    \/ clearPreviousDoc
    \/ handleGenerate
    \/ GenerateRespond(GenIn)

SpecGen == Init /\ [][NextGen]_vars

\* one fetch from the initial state, over every answer of the provider
NextFetch ==
    \/ FirstFetch /\ handleFetch(Wide)
    \/ GithubRespond(Wide)
    \/ AzureCommitRespond(Wide)
    \/ AzureChangesRespond(Wide)
    \/ AzureContentRespond(Wide)

SpecFetch == Init /\ [][NextFetch]_vars

\* ---------------------------------------------------------- properties

Finished(o) == o.pc = "idle" /\ o.status \in {"ok", "error"}

\* the answers of kind `kind` an invocation got
Answers(o, kind) == {o.trace[k] : k \in {k \in DOMAIN o.trace : o.trace[k].kind = kind}}

\* the diff piece that follows the header of changed item i ("none" when the
\* header is not in the diff)
PieceAfterHeader(diff, changes, i) ==
    LET at == {p \in DOMAIN diff : diff[p] = FileHeader(changes[i])}
    IN  IF at = {} \/ (CHOOSE p \in at : TRUE) + 1 > Len(diff) THEN Note("none")
        ELSE diff[(CHOOSE p \in at : TRUE) + 1]

\* C1: in an Azure fetch whose commit-metadata request succeeded, no failure of
\* a later step (changes list, file content) makes the operation fail: it
\* ends with a Commit.
C1_LaterFailuresDegrade ==
    \A s \in Slots :
      (ops[s].tab = "azure" /\ Finished(ops[s])
         /\ \E e \in Answers(ops[s], "commit") : e.how = "ok")
      => ops[s].status = "ok"

\* C2: for every changed item whose content request failed (network failure
\* or non-success status), the diff of the returned Commit has the "could not
\* fetch file content" note right after that file's header.
C2_FailedContentNoted ==
    \A s \in Slots :
      (ops[s].tab = "azure" /\ ops[s].status = "ok")
      => \A e \in Answers(ops[s], "content") :
           e.how \in {"net", "status"}
           => PieceAfterHeader(ops[s].commit.diff, ops[s].changes, e.idx) = Note("nofetch")

\* C3: when the metadata request succeeded and the changes-list request
\* returned a non-success status, the fetch ends with a Commit appended to the
\* store, whose hash is the first 7 characters of the fetched commitId, whose
\* message, author and date are the fetched ones, whose diff has the "could
\* not fetch changes list" note, and no content request was issued.
C3_ChangesStatusStillCommit ==
    \A s \in Slots :
      LET o == ops[s]
          d == o.data
      IN  (o.tab = "azure" /\ \E e \in Answers(o, "changes") : e.how = "status")
          => /\ o.status = "ok"
             /\ o.commit.hash = (IF Len(d.commitId) > 7 THEN SubSeq(d.commitId, 1, 7)
                                 ELSE d.commitId)
             /\ o.commit.message = d.comment
             /\ o.commit.author = (IF d.hasAuthor THEN d.authorName ELSE Absent)
             /\ o.commit.date = (IF d.hasAuthor THEN d.authorDate ELSE Absent)
             /\ o.commit.source = "AZURE"
             /\ \E p \in DOMAIN o.commit.diff : o.commit.diff[p] = Note("nolist")
             /\ \A k \in DOMAIN o.issued : o.issued[k].kind # "content"
             /\ o.commit \in Range(commits)

C3_Witness ==
    \E s \in Slots :
      /\ ops[s].status = "ok"
      /\ ops[s].data = DataFull
      /\ \E e \in Answers(ops[s], "changes") : e.how = "status"

\* C4: the requests of one Azure fetch are issued one after the other: never
\* two outstanding; the k-th is issued only after the answer to the (k-1)-th;
\* first the metadata request, then the changes list, then content requests in
\* strictly increasing list position; at most 2 + N for N changed items.
C4_Sequential ==
    \A s \in Slots :
      LET o == ops[s]
      IN  o.tab = "azure"
          => /\ Cardinality({r \in net : r.op = s}) <= 1
             /\ Len(o.issued) <= Len(o.trace) + 1
             /\ Len(o.issued) <= 2 + Len(o.changes)
             /\ \A k \in DOMAIN o.issued :
                  /\ k = 1 => o.issued[k].kind = "commit"
                  /\ k = 2 => o.issued[k].kind = "changes"
                  /\ k >= 3 => /\ o.issued[k].kind = "content"
                               /\ o.issued[k].idx \in DOMAIN o.changes
                  /\ k > 3 => o.issued[k - 1].idx < o.issued[k].idx

C4_Witness ==
    \E s \in Slots :
      /\ ops[s].status = "ok"
      /\ Len(ops[s].changes) = 2
      /\ Len(ops[s].issued) = 4

\* the input URLs without "github.com/{owner}/{repo}" in them, and those that
\* are no Azure repository URL
NotGithubUrls == {GithubNoRepo, AzureDev, AzureVs, AzureNoGit, AzureNoScheme, AzureTruncated}
NotAzureUrls == {GithubGood, GithubNoRepo, AzureNoGit, AzureNoScheme, AzureTruncated}

\* C5: a fetch requested with a repository URL that does not parse, or an
\* Azure fetch requested with an empty token, fails without any request
\* having been issued.
C5_FailFastBeforeNetwork ==
    \A s \in Slots :
      LET o == ops[s]
      IN  (/\ o.status # "none"
           /\ \/ o.tab = "github" /\ o.url \in NotGithubUrls
              \/ o.tab = "azure" /\ o.url \in NotAzureUrls
              \/ o.tab = "azure" /\ o.token = "")
          => /\ o.status = "error"
             /\ o.failedAt \in {"PARSE_URL", "CREDENTIAL"}
             /\ o.issued = <<>>
             /\ o.trace = <<>>
             /\ {r \in net : r.op = s} = {}
             /\ commits = <<>>

C5_Witness ==
    \E s \in Slots :
      /\ ops[s].tab = "azure"
      /\ ops[s].url = AzureNoGit
      /\ ops[s].token = "pat"
      /\ ops[s].status = "error"

\* C6: a content answer of L characters: below 30000 and without NUL, the
\* first min(L, 5000) characters are embedded, with the truncation marker
\* exactly when L > 5000; otherwise the "too large or binary" note and no text.
\* 40000 is skipped, 4000 is whole without marker, 6000 is 5000 with marker.
C6_ContentEmbedding ==
    \A s \in Slots :
      LET o == ops[s]
      IN  \A e \in Answers(o, "content") :
            e.how = "ok" =>
              LET piece == PieceAfterHeader(o.diffContent, o.changes, e.idx)
              IN  /\ (e.len < 30000 /\ ~e.nul)
                       => /\ piece.t = "content"
                          /\ piece.n = (IF e.len < 5000 THEN e.len ELSE 5000)
                          /\ piece.marker = (e.len > 5000)
                  /\ (e.len >= 30000 \/ e.nul) => piece = Note("skipped")
                  /\ e.len = 40000 => piece = Note("skipped")
                  /\ (e.len = 4000 /\ ~e.nul) => piece = Line("content", "", "", 4000, FALSE)
                  /\ e.len = 6000 => piece = Line("content", "", "", 5000, TRUE)
                  /\ o.status = "ok" =>
                       PieceAfterHeader(o.commit.diff, o.changes, e.idx) = piece

C6_Witness ==
    \E s \in Slots :
      /\ ops[s].status = "ok"
      /\ \E e \in Answers(ops[s], "content") : e.how = "ok" /\ e.len = 6000
      /\ \E e \in Answers(ops[s], "content") : e.how = "ok" /\ e.len = 40000

Ids(store) == {store[i].id : i \in DOMAIN store}

\* C7: removing by its id a commit that is in the store removes exactly that
\* entry: one entry fewer, the others as they were and in their order.
C7_RemoveExactlyOne ==
    [][\A id \in 0..nextId :
         (handleRemoveCommit(id) /\ id \in Ids(commits))
         => /\ Len(commits') = Len(commits) - 1
            /\ \E i \in DOMAIN commits :
                 /\ commits[i].id = id
                 /\ commits' = SubSeq(commits, 1, i - 1)
                               \o SubSeq(commits, i + 1, Len(commits))]_vars

\* three commits were added and the middle one removed
C7_Witness ==
    /\ Len(commits) = 2
    /\ commits[1].id = 1
    /\ commits[2].id = 3
    /\ commits[1].hash = commits[2].hash

\* C8: removing an id that no commit in the store has leaves the store as it is.
C8_RemoveAbsentNoOp ==
    \A id \in 0..nextId : id \notin Ids(commits) => RemoveCommit(commits, id) = commits

\* a store of two commits after a third was removed: its id is absent
C8_Witness ==
    /\ Len(commits) = 2
    /\ nextId = 4
    /\ 2 \notin Ids(commits)

\* C9: every step that creates a commit appends it as the last entry: the
\* entries before are unchanged, the length grows by one, also when an entry
\* with the same hash is in the store already.
C9_AddAppends ==
    [][nextId' # nextId
       => /\ Len(commits') = Len(commits) + 1
          /\ SubSeq(commits', 1, Len(commits)) = commits
          /\ commits'[Len(commits')].id = nextId
          /\ nextId' = nextId + 1]_vars

\* the same GitHub commit was added twice and both entries are in the store
C9_Witness ==
    \E i, j \in DOMAIN commits :
      /\ i < j
      /\ commits[i].hash = commits[j].hash
      /\ commits[i].source = "GITHUB"
      /\ commits[j].source = "GITHUB"

\* C10: in every step a commit that stays in the store stays as it is, a
\* commit leaves the store only in a remove of its own id, and an entry that
\* comes in has the fresh id, so no id ever comes back with other contents.
C10_CommitsImmutable ==
    [][/\ \A i \in DOMAIN commits : \A j \in DOMAIN commits' :
            commits[i].id = commits'[j].id => commits[i] = commits'[j]
       /\ \A i \in DOMAIN commits :
            commits[i].id \notin Ids(commits') => handleRemoveCommit(commits[i].id)
       /\ \A j \in DOMAIN commits' :
            commits'[j].id \notin Ids(commits)
            => commits'[j].id = nextId /\ nextId' = nextId + 1
       /\ \A i \in DOMAIN commits : commits[i].id < nextId]_vars

\* the first commit is still in the store after a fetch, a removal and a
\* generation
C10_Witness ==
    /\ Len(commits) = 1
    /\ commits[1].id = 1
    /\ nextId = 4
    /\ ops[1].status = "ok"
    /\ generatedDoc # Doc("", "")

\* ---------------------------------------------------------- generation

GenerateRequests == {r \in net : r.kind = "generate"}

\* C11: generateDocumentation never lets a failure out: whatever the
\* text-generation call throws, it returns a document that begins with
\* "# Generation Failed" and carries the failure's message; when the call
\* succeeds without text, it returns the fixed placeholder document.
C11_NeverPropagates ==
    genLast.outcome # "none" =>
      /\ genLast.outcome = "returned"
      /\ genLast.resp.kind = "throw" => generatedDoc.head = "# Generation Failed"
      /\ genLast.resp.kind = "throw" /\ genLast.resp.thrown = "error" =>
           generatedDoc.body = genLast.resp.message
      /\ genLast.resp.kind = "text" /\ genLast.resp.text = "" =>
           generatedDoc = Doc("# Error: No content generated.", "")

\* C12: generateDocumentation is never called with an empty collection of
\* commits: every generation request was built from at least one commit, the
\* generating flag is up only while such a request is awaited, and the
\* generated document stays as it was until a call has ended.
C12_NoGenerateOnEmpty ==
    /\ \A r \in GenerateRequests : r.idx >= 1
    /\ isGenerating <=> GenerateRequests # {}
    /\ isGenerating <=> genPc = "await"
    /\ genLast.outcome = "none" => generatedDoc = Doc("", "")

\* the store is empty again after a generation has ended: a request to
\* generate is now turned away
C12_Witness ==
    /\ commits = <<>>
    /\ genPc = "idle"
    /\ genLast.outcome = "returned"
    /\ ~isGenerating

\* C13 as stated: the prompt carries the update instructions whenever a
\* previousDocContent is supplied, whatever text it is, and the new-document
\* skeleton when none is; exactly one of the two is in the prompt.
C13_UpdateWheneverSupplied ==
    \A r \in GenerateRequests :
      LET blocks == Range(r.body.task)
      IN  /\ r.body.previousDocContent # Null =>
               "update" \in blocks /\ "skeleton" \notin blocks
          /\ r.body.previousDocContent = Null =>
               "skeleton" \in blocks /\ "update" \notin blocks

\* C13 amended: the prompt carries the update instructions whenever
\* previousDocContent is a non-empty text, and the new-document skeleton when
\* it is absent or the empty text (an empty uploaded file); exactly one of
\* the two is in the prompt.
C13_UpdateWhenNonEmpty ==
    \A r \in GenerateRequests :
      LET blocks == Range(r.body.task)
          previous == r.body.previousDocContent
      IN  /\ previous \notin {Null, ""} =>
               "update" \in blocks /\ "skeleton" \notin blocks
          /\ previous \in {Null, ""} =>
               "skeleton" \in blocks /\ "update" \notin blocks

\* a generation request built while an uploaded document is held
C13_Witness ==
    \E r \in GenerateRequests :
      /\ r.body.previousDocContent = "# Old"
      /\ reading = {}
      /\ previousDocContent = "# Old"

\* ---------------------------------------------------------- manual entries

ManualEntries == {commits[i] : i \in {j \in DOMAIN commits : commits[j].source = "MANUAL"}}

\* what every manual entry has whatever its date: the hash "manual", no
\* author, a diff that is the non-empty text entered, and a message that is
\* the one entered or, when none was entered, the placeholder
ManualShape(c) ==
    /\ c.hash = <<"m", "a", "n", "u", "a", "l">>
    /\ c.author = Absent
    /\ Len(c.diff) = 1 /\ c.diff[1].path # ""
    /\ c.message # ""
    /\ c.message = "Manual Diff Entry" \/ c.message \in Narrow.messages

\* C14 as stated: every MANUAL commit has the hash "manual", no author and
\* no date; it is only created from a non-empty diff, and its message is the
\* placeholder when none was entered.
C14_ManualNoDate ==
    \A c \in ManualEntries : ManualShape(c) /\ c.date = Absent

\* C14 amended: every MANUAL commit has the hash "manual", no author, and
\* the time of its creation as its date; it is only created from a non-empty
\* diff, and its message is the placeholder when none was entered.
C14_ManualDated ==
    \A c \in ManualEntries : ManualShape(c) /\ c.date = "now"

\* a manual entry without a message and one with a message are in the store
C14_Witness ==
    \E c, d \in ManualEntries :
      /\ c.message = "Manual Diff Entry"
      /\ d.message = "tweak"

\* ---------------------------------------------------------- URL parsing

\* organisation and project names, and repository names
AzureNames == {"a", "b"}
RepoNames == {"a", "b", "_git", "github.com"}

\* the fetch of slot s was turned away for its URL, before any request
ParseFailed(s, message) ==
    /\ ops[s].status = "error"
    /\ ops[s].failedAt = "PARSE_URL"
    /\ ops[s].message = message
    /\ ops[s].issued = <<>>
    /\ net = {}

\* the fetch of slot s went on to its first request with these names
ParsedInto(s, kind, names) ==
    /\ ops[s].pc = kind
    /\ ops[s].target = names
    /\ ops[s].issued = <<Req(s, kind, 0)>>

\* the sequence without its element at position k
Without(path, k) == SubSeq(path, 1, k - 1) \o SubSeq(path, k + 1, Len(path))

\* the proper prefixes of a path
Truncations(path) == {SubSeq(path, 1, k) : k \in 0..(Len(path) - 1)}

\* C15: for every URL https://dev.azure.com/{org}/{project}/_git/{repo} and
\* https://{org}.visualstudio.com/{project}/_git/{repo} the parser returns
\* exactly org, project and repo; for every URL got from such a URL by taking
\* the _git segment out or by cutting the path short it fails; and it never
\* throws: a fetch on the Azure tab either goes on to its first request or
\* ends with the invalid-URL error.
C15_AzureParse ==
    \A s \in Slots :
      ops[s].tab = "azure" /\ ops[s].status # "none" =>
        LET u == ops[s].url
            invalid == ParseFailed(s, "Invalid Azure DevOps repository URL")
        IN  /\ invalid \/ ops[s].pc = "commit"
            /\ \A org \in AzureNames, project \in AzureNames, repo \in RepoNames :
                 LET devPath == <<org, project, "_git", repo>>
                     vsPath == <<project, "_git", repo>>
                     vsHost == <<org, "visualstudio", "com">>
                 IN  /\ u.scheme = "https" /\ HostIsDevAzureCom(u.host)
                        /\ u.path = devPath
                        => ParsedInto(s, "commit", <<org, project, repo>>)
                     /\ u.scheme = "https" /\ u.host = vsHost /\ u.path = vsPath
                        => ParsedInto(s, "commit", <<org, project, repo>>)
                     /\ HostIsDevAzureCom(u.host)
                        /\ u.path \in {Without(devPath, 3)} \cup Truncations(devPath)
                        => invalid
                     /\ u.host = vsHost
                        /\ u.path \in {Without(vsPath, 2)} \cup Truncations(vsPath)
                        => invalid

\* a URL of the visualstudio.com form was parsed into its three names
C15_Witness ==
    \E s \in Slots :
      /\ ops[s].url = Url("https", <<"a", "visualstudio", "com">>, <<"b", "_git", "a">>)
      /\ ParsedInto(s, "commit", <<"a", "b", "a">>)

\* the text has a piece "github.com" followed by two non-empty pieces
HasGithubSegment(u) ==
    \/ u.host = <<"github", "com">> /\ Len(u.path) >= 2
       /\ u.path[1] # "" /\ u.path[2] # ""
    \/ \E i \in DOMAIN u.path :
         /\ u.path[i] = "github.com" /\ i + 2 <= Len(u.path)
         /\ u.path[i + 1] # "" /\ u.path[i + 2] # ""

\* C16: for every URL https://github.com/{owner}/{repo}, whatever follows,
\* the parser extracts exactly owner and repo, the first two path segments
\* after the host; for every URL without a github.com segment followed by
\* two path parts it fails with the invalid-URL error.
C16_GithubParse ==
    \A s \in Slots :
      ops[s].tab = "github" /\ ops[s].status # "none" =>
        LET u == ops[s].url
        IN  /\ u.scheme = "https" /\ u.host = <<"github", "com">>
               /\ Len(u.path) >= 2 /\ u.path[1] # "" /\ u.path[2] # ""
               => ParsedInto(s, "github", <<u.path[1], u.path[2]>>)
            /\ ~HasGithubSegment(u)
               => ParseFailed(s, "Invalid GitHub repository URL")

\* ---------------------------------------------------------- provider errors

\* the messages the error bodies of the provider carry
ProviderMessages == {resp.message : resp \in Wide.commitResps} \ {""}

\* C17: a GitHub fetch whose response has a non-success status ends with an
\* error that carries the provider's message when the body has one and the
\* generic message in every other case, a body that cannot be parsed
\* included; no commit is produced and no request is issued again.
C17_GithubStatusError ==
    \A s \in Slots :
      ops[s].tab = "github"
      /\ (\E e \in Answers(ops[s], "github") : e.how = "status") =>
        /\ ops[s].status = "error"
        /\ ops[s].failedAt = "FETCH_COMMIT"
        /\ ops[s].message \in ProviderMessages \cup {"Failed to fetch commit from GitHub"}
        /\ ops[s].commit = NoCommit
        /\ ops[s].issued = <<Req(s, "github", 0)>>
        /\ commits = <<>>
        /\ net = {}

\* ---------------------------------------------------------- identities

\* C18: the ids of the commits in the store are pairwise distinct, every id
\* in use lies below the next fresh id, so a fresh id is never one that was
\* given out before, and removing an id never takes more than one entry out,
\* also when the same hash was added several times.
C18_IdsDistinct ==
    /\ \A i, j \in DOMAIN commits : i # j => commits[i].id # commits[j].id
    /\ \A i \in DOMAIN commits : 1 <= commits[i].id /\ commits[i].id < nextId
    /\ \A s \in Slots : ops[s].commit.id < nextId
    /\ \A id \in 0..nextId : Len(commits) - Len(RemoveCommit(commits, id)) <= 1

\* two manual entries with the same hash are in the store, the entry created
\* between them was removed and its id has not come back
C18_Witness ==
    /\ Len(commits) = 2
    /\ commits[1].hash = commits[2].hash
    /\ commits[1].source = "MANUAL" /\ commits[2].source = "MANUAL"
    /\ commits[1].id = 1 /\ commits[2].id = 3

\* ---------------------------------------------------------- interleaving

\* C19: store updates are not lost when they interleave with a suspended
\* fetch: the fetch that ends with a commit appends exactly that commit to
\* the store as it is at that moment, the fetch that fails leaves the store
\* unchanged, both reset the fetching flag, and while a fetch stays
\* suspended the store changes only by an add or a remove.
C19_NoLostUpdate ==
    [][\A s \in Slots :
         /\ Running(s) /\ ~Running(s)' /\ ops'[s].status = "ok" =>
              /\ commits' = Append(commits, ops'[s].commit)
              /\ ops'[s].commit.id \notin Ids(commits)
              /\ ~isFetching'
         /\ ops'[s] # ops[s] /\ ops'[s].status = "error" /\ ~Running(s)' =>
              /\ commits' = commits
              /\ ~isFetching'
         /\ Running(s) /\ Running(s)' /\ commits' # commits =>
              \/ \E id \in Ids(commits) : commits' = RemoveCommit(commits, id)
              \/ /\ Len(commits') = Len(commits) + 1
                 /\ SubSeq(commits', 1, Len(commits)) = commits
                 /\ commits'[Len(commits')].source = "MANUAL"]_vars

\* a fetch ended with its commit as the last entry of the store after an
\* entry was added and an entry was removed while it was suspended
C19_Witness ==
    \E s \in Slots :
      /\ ops[s].status = "ok"
      /\ ops[s].meanwhile = {"add", "remove"}
      /\ Len(commits) = 2
      /\ commits[Len(commits)] = ops[s].commit
      /\ commits[1].source = "MANUAL"
      /\ nextId = ops[s].commit.id + 1

================================================================
